---- MODULE Spec2Model ----
(***************************************************************************)
(* Model of src/vm.c: the four operations of the virtual-memory simulator  *)
(* (alloc_page, free_page, handle_page_fault, switch_process) over the     *)
(* frame reference counts, the two-level page tables and the ready queue.  *)
(*                                                                         *)
(* Representation notes.                                                   *)
(*  - A process is a handle: its index in procs, in order of creation.     *)
(*    current, ptbr and the members of processes are handles, so that two  *)
(*    processes carrying the same pid are still two processes.             *)
(*  - mapcounts[] holds `unsigned int'.  A count is stored as the          *)
(*    representative nearest to zero of its residue modulo 2^32: -1 stands *)
(*    for 4294967295.  The code only adds one, subtracts one and compares  *)
(*    with 0 and 1, and a run of at most MaxCalls calls keeps every count  *)
(*    within a few units of zero, so the encoding is exact.                *)
(*  - malloc() returns memory whose content is indeterminate.  A directory *)
(*    obtained from malloc holds, in every slot the code does not write,   *)
(*    either zero bytes or a stale entry; the pointer slots of a malloc'ed *)
(*    process that the code does not write are all NULL (a zero-filled     *)
(*    block) or all wild (a dirty block).  Dereferencing NULL or a wild    *)
(*    pointer ends the program (status = "crashed").                       *)
(*  - hist is a history variable that no operation reads: the entries      *)
(*    <<process, vpn>> that alloc_page wrote with write intent (walloc),   *)
(*    a fork handing the mark on to the child's copy, and those among them *)
(*    that a fork has since passed over (forked).                          *)
(***************************************************************************)
EXTENDS Integers, Sequences, FiniteSets, TLC

VARIABLES mapcounts, procs, current, processes, ptbr, status, last, ncalls, scn,
          hist

vars == <<mapcounts, procs, current, processes, ptbr, status, last, ncalls, scn,
          hist>>

(* ------------------------------ constants ------------------------------ *)

NR_PAGEFRAMES == 4

NR_PTES_PER_PAGE == 3

RW_READ == 1

RW_WRITE == 2

(* ------------------------------- bounds -------------------------------- *)

\* calls the harness issues in one run
MaxCalls == 5

(* ------------------------------- values -------------------------------- *)

Frames == 0 .. (NR_PAGEFRAMES - 1)

Idx == 0 .. (NR_PTES_PER_PAGE - 1)

Vpns == 0 .. (NR_PTES_PER_PAGE * NR_PTES_PER_PAGE - 1)

\* the vpns the harness hands to the operations
VpnIn == {0, 1}

\* the pids the harness hands to switch_process: that of the initial process
\* and one other
Pids == {0, 2}

RWs == {RW_READ, RW_WRITE}

\* the value alloc_page returns when no frame is free: (unsigned int)-1
NoFrame == 0 - 1

PTE(v, w, p, f) == [valid |-> v, writable |-> w, private |-> p, pfn |-> f]

ZeroPTE == PTE(FALSE, FALSE, 0, 0)

\* what a slot of uninitialised heap memory may hold besides zero bytes
StalePTE == PTE(TRUE, TRUE, 1, 0)

GarbagePTEs == {ZeroPTE, StalePTE}

ZeroPtes == [q \in Idx |-> ZeroPTE]

NullEntry == [tag |-> "null", ptes |-> ZeroPtes]

WildEntry == [tag |-> "wild", ptes |-> ZeroPtes]

Dir(d) == [tag |-> "dir", ptes |-> d]

\* malloc(sizeof(struct pte_directory)): a directory with indeterminate slots
MallocDir == {Dir(d) : d \in [Idx -> GarbagePTEs]}

\* the pointer slots of a malloc'ed struct process that are never written: the
\* block is either zero-filled (all NULL) or dirty (all wild)
UninitPtr == {NullEntry, WildEntry}

EmptyPT == [j \in Idx |-> NullEntry]

(* ------------------------------ helpers -------------------------------- *)

OpIndex(vpn) == vpn \div NR_PTES_PER_PAGE

IpIndex(vpn) == vpn % NR_PTES_PER_PAGE

Entry(h, vpn) == procs[h].pagetable[OpIndex(vpn)]

Pte(h, vpn) == Entry(h, vpn).ptes[IpIndex(vpn)]

\* mutant: the scan runs from the last frame down
HighestFree(mc) ==
  IF \E i \in Frames : mc[i] = 0
    THEN CHOOSE i \in Frames : mc[i] = 0 /\ \A k \in Frames : k > i => mc[k] # 0
    ELSE 0 - 1

\* the scan `for i = 0 .. NR_PAGEFRAMES-1: if mapcounts[i] == 0'
LowestFree(mc) ==
  IF \E i \in Frames : mc[i] = 0
    THEN CHOOSE i \in Frames : mc[i] = 0 /\ \A k \in Frames : k < i => mc[k] # 0
    ELSE NoFrame

Inc(mc, f) == [mc EXCEPT ![f] = @ + 1]

Dec(mc, f) == [mc EXCEPT ![f] = @ - 1]

\* the record of the call that produced the state: its arguments and result,
\* the entry it was aimed at as it was before the call (opte), the process
\* that was current before it (from) and, for switch_process, that process's
\* page table before the call (snap) and whether a plain switch came back to
\* the process the previous plain switch had left (back)
Call(op, vpn, rw, pid, ret, forked, opte, from, snap, back) ==
  [op |-> op, vpn |-> vpn, rw |-> rw, pid |-> pid, ret |-> ret,
   forked |-> forked, opte |-> opte, from |-> from, snap |-> snap,
   back |-> back]

\* the scripted run of four calls: two read-only allocations, a fork, a write
\* fault in the child
Scenario ==
  << [op |-> "alloc_page", vpn |-> 0, rw |-> RW_READ, pid |-> 0],
     [op |-> "alloc_page", vpn |-> 1, rw |-> RW_READ, pid |-> 0],
     [op |-> "switch_process", vpn |-> 0, rw |-> 0, pid |-> 2],
     [op |-> "handle_page_fault", vpn |-> 0, rw |-> RW_WRITE, pid |-> 0] >>

\* scn = k: the run so far is exactly the first k calls of Scenario; else -1
ScnNext(k, c) ==
  IF k >= 0 /\ k < Len(Scenario) /\ c = Scenario[k + 1] THEN k + 1 ELSE 0 - 1

\* the harness issues one call at a time, MaxCalls of them at most
Called(op, vpn, rw, pid) ==
  /\ ncalls < MaxCalls
  /\ ncalls' = ncalls + 1
  /\ scn' = ScnNext(scn, [op |-> op, vpn |-> vpn, rw |-> rw, pid |-> pid])

Crash(op, vpn, rw, pid) ==
  /\ status' = "crashed"
  /\ last' = Call(op, vpn, rw, pid, 0, FALSE, ZeroPTE, current, EmptyPT, FALSE)
  /\ UNCHANGED <<mapcounts, procs, current, processes, ptbr, hist>>

\* alloc_page has written the entry of process h for vpn v
HistAlloc(h, v, rwflag) ==
  [walloc |-> IF rwflag THEN hist.walloc \cup {<<h, v>>}
                        ELSE hist.walloc \ {<<h, v>>},
   forked |-> hist.forked \ {<<h, v>>}]

\* free_page has cleared the entry of process h for vpn v
HistFree(h, v) ==
  [walloc |-> hist.walloc \ {<<h, v>>}, forked |-> hist.forked \ {<<h, v>>}]

\* the fork loop has copied the entries of process h to the new process c
HistFork(h, c) ==
  LET ws == {v \in Vpns : <<h, v>> \in hist.walloc} IN
  [walloc |-> hist.walloc \cup {<<c, v>> : v \in ws},
   forked |-> hist.forked \cup {<<h, v>> : v \in ws} \cup {<<c, v>> : v \in ws}]

(* -------------------------------- Init --------------------------------- *)

Init ==
  /\ mapcounts = [f \in Frames |-> 0]
  /\ procs = <<[pid |-> 0, pagetable |-> EmptyPT]>>
  /\ current = 1
  /\ processes = <<>>
  /\ ptbr = 1
  /\ status = "running"
  /\ last = Call("init", 0, 0, 0, 0, FALSE, ZeroPTE, 1, EmptyPT, FALSE)
  /\ ncalls = 0
  /\ scn = 0
  /\ hist = [walloc |-> {}, forked |-> {}]

(* ----------------------------- alloc_page ------------------------------ *)

RwFlag(rw) == rw # 1

\* mutant: private is set for the read-only allocation instead
AllocPTEPrivateOnRead(rwflag, i) == PTE(TRUE, rwflag, IF rwflag THEN 0 ELSE 1, i)

AllocPTE(rwflag, i) == PTE(TRUE, rwflag, IF rwflag THEN 1 ELSE 0, i)

alloc_page(vpn, rw) ==
  LET ent == Entry(current, vpn)
      i   == LowestFree(mapcounts)
  IN
  /\ Called("alloc_page", vpn, rw, 0)
  /\ status = "running"
  /\ IF ent.tag = "wild"
       THEN Crash("alloc_page", vpn, rw, 0)
       ELSE \E d \in (IF ent.tag = "null" THEN MallocDir ELSE {ent}) :
              /\ IF i # NoFrame
                   THEN /\ mapcounts' = Inc(mapcounts, i)
                        /\ procs' = [procs EXCEPT ![current].pagetable[OpIndex(vpn)] =
                                       Dir([d.ptes EXCEPT ![IpIndex(vpn)] =
                                              AllocPTE(RwFlag(rw), i)])]
                        /\ hist' = HistAlloc(current, vpn, RwFlag(rw))
                   ELSE /\ mapcounts' = mapcounts
                        /\ procs' = [procs EXCEPT ![current].pagetable[OpIndex(vpn)] = d]
                        /\ hist' = hist
              /\ last' = Call("alloc_page", vpn, rw, 0, i, FALSE, ZeroPTE,
                              current, EmptyPT, FALSE)
              /\ UNCHANGED <<current, processes, ptbr, status>>

(* ------------------------------ free_page ------------------------------ *)

FreedPTE(pte) == PTE(FALSE, FALSE, 0, 0)

FreeCounts(mc, pte) == Dec(mc, pte.pfn)

free_page(vpn) ==
  LET ent == Entry(current, vpn)
      pte == Pte(current, vpn)
  IN
  /\ Called("free_page", vpn, 0, 0)
  /\ status = "running"
  /\ IF ent.tag # "dir"
       THEN Crash("free_page", vpn, 0, 0)
       ELSE /\ mapcounts' = FreeCounts(mapcounts, pte)
            /\ procs' = [procs EXCEPT
                 ![current].pagetable[OpIndex(vpn)].ptes[IpIndex(vpn)] = FreedPTE(pte)]
            /\ last' = Call("free_page", vpn, 0, 0, 0, FALSE, pte, current, EmptyPT,
                            FALSE)
            /\ hist' = HistFree(current, vpn)
            /\ UNCHANGED <<current, processes, ptbr, status>>

(* -------------------------- handle_page_fault -------------------------- *)

\* mutant: every handled fault takes a new frame, also when the count is 1
FaultFrameAlwaysCopy(mc, pte) ==
  IF pte.private = 1 THEN LowestFree(mc) ELSE 0 - 1

\* mutant: the private flag is not tested
FaultFrameAnyPte(mc, pte) ==
  IF mc[pte.pfn] = 1 THEN pte.pfn ELSE LowestFree(mc)

\* mutant: the old frame's count is not decremented
FaultCountsKeepsOld(mc, pte) ==
  IF pte.private = 1 /\ mc[pte.pfn] # 1 /\ LowestFree(mc) # 0 - 1
    THEN Inc(mc, LowestFree(mc))
    ELSE mc

\* mutant: the old frame's count is dropped also when no frame is free
FaultCountsDropsOld(mc, pte) ==
  IF pte.private = 1 /\ mc[pte.pfn] # 1
    THEN IF LowestFree(mc) # 0 - 1
           THEN Dec(Inc(mc, LowestFree(mc)), pte.pfn)
           ELSE Dec(mc, pte.pfn)
    ELSE mc

\* the frame the faulting entry ends on, NoFrame when the fault is not handled
FaultFrame(mc, pte) ==
  IF pte.private = 1
    THEN IF mc[pte.pfn] = 1 THEN pte.pfn ELSE LowestFree(mc)
    ELSE NoFrame

FaultCounts(mc, pte) ==
  IF pte.private = 1 /\ mc[pte.pfn] # 1 /\ LowestFree(mc) # NoFrame
    THEN Dec(Inc(mc, LowestFree(mc)), pte.pfn)
    ELSE mc

FaultPTE(mc, pte) ==
  IF FaultFrame(mc, pte) # NoFrame
    THEN [pte EXCEPT !.writable = TRUE, !.pfn = FaultFrame(mc, pte)]
    ELSE pte

handle_page_fault(vpn, rw) ==
  LET ent == Entry(current, vpn)
      pte == Pte(current, vpn)
  IN
  /\ Called("handle_page_fault", vpn, rw, 0)
  /\ status = "running"
  /\ IF ent.tag # "dir"
       THEN Crash("handle_page_fault", vpn, rw, 0)
       ELSE /\ mapcounts' = FaultCounts(mapcounts, pte)
            /\ procs' = [procs EXCEPT
                 ![current].pagetable[OpIndex(vpn)].ptes[IpIndex(vpn)] =
                    FaultPTE(mapcounts, pte)]
            /\ last' = Call("handle_page_fault", vpn, rw, 0,
                            IF FaultFrame(mapcounts, pte) # NoFrame THEN 1 ELSE 0,
                            FALSE, pte, current, EmptyPT, FALSE)
            /\ UNCHANGED <<current, processes, ptbr, status, hist>>

(* ---------------------------- switch_process --------------------------- *)

\* list_for_each_safe: the first queued process whose pid is `pid', 0 if none
Find(pid) ==
  IF \E k \in 1 .. Len(processes) : procs[processes[k]].pid = pid
    THEN processes[CHOOSE k \in 1 .. Len(processes) :
                     /\ procs[processes[k]].pid = pid
                     /\ \A m \in 1 .. (k - 1) : procs[processes[m]].pid # pid]
    ELSE 0

\* list_del_init(&p->list)
ListDel(q, h) == SelectSeq(q, LAMBDA x : x # h)

\* list_add_tail(&p->list, &processes)
ListAddTail(q, h) == Append(q, h)

\* the parent's entry after the fork loop has passed over it
ForkParentPTE(pte) == IF pte.valid THEN [pte EXCEPT !.writable = FALSE] ELSE pte

\* mutant: the child's copy keeps the parent's writable bit
ForkChildPTEKeepsWritable(pte, junk) ==
  IF pte.valid THEN PTE(TRUE, pte.writable, pte.private, pte.pfn) ELSE junk

\* the child's entry: copied when the parent's is valid, else left as malloc gave it
ForkChildPTE(pte, junk) ==
  IF pte.valid THEN PTE(TRUE, FALSE, pte.private, pte.pfn) ELSE junk

\* mutant: the fork does not count the child's mappings
ForkCountsForgotten(mc, pt) == mc

\* mapcounts[pfn] += 1 once for every valid entry of the parent
ForkCounts(mc, pt) ==
  [f \in Frames |->
     mc[f] + Cardinality({v \in Vpns :
                            /\ pt[OpIndex(v)].tag = "dir"
                            /\ pt[OpIndex(v)].ptes[IpIndex(v)].valid
                            /\ pt[OpIndex(v)].ptes[IpIndex(v)].pfn = f})]

ForkParentPT(pt) ==
  [j \in Idx |-> IF pt[j].tag = "dir"
                   THEN Dir([q \in Idx |-> ForkParentPTE(pt[j].ptes[q])])
                   ELSE pt[j]]

\* the entries of the child's directories that the fork loop never writes
UnsetPtes(pt) ==
  {v \in Vpns : pt[OpIndex(v)].tag = "dir" /\ ~pt[OpIndex(v)].ptes[IpIndex(v)].valid}

ForkChildPT(pt, ptr, junk) ==
  [j \in Idx |->
     IF pt[j].tag = "dir"
       THEN Dir([q \in Idx |->
                   ForkChildPTE(pt[j].ptes[q],
                                IF pt[j].ptes[q].valid
                                  THEN ZeroPTE
                                  ELSE junk[j * NR_PTES_PER_PAGE + q])])
       ELSE ptr]

\* mutant: a plain switch write-protects the entries of the process it leaves
SwitchToCow(p, pid) ==
  /\ processes' = ListDel(ListAddTail(processes, current), p)
  /\ current' = p
  /\ ptbr' = p
  /\ procs' = [procs EXCEPT ![current].pagetable = ForkParentPT(@)]
  /\ last' = Call("switch_process", 0, 0, pid, 0, FALSE, ZeroPTE, current,
                  procs[current].pagetable,
                  /\ last.op = "switch_process"
                  /\ ~last.forked
                  /\ last.from = p)
  /\ UNCHANGED <<mapcounts, status, hist>>

\* mutant: the process switched to is not taken off the ready queue
SwitchToStaysQueued(p, pid) ==
  /\ processes' = ListAddTail(processes, current)
  /\ current' = p
  /\ ptbr' = p
  /\ last' = Call("switch_process", 0, 0, pid, 0, FALSE, ZeroPTE, current,
                  procs[current].pagetable,
                  /\ last.op = "switch_process"
                  /\ ~last.forked
                  /\ last.from = p)
  /\ UNCHANGED <<mapcounts, procs, status, hist>>

\* mutant: ptbr is left on the page table of the process switched away from
SwitchToStalePtbr(p, pid) ==
  /\ processes' = ListDel(ListAddTail(processes, current), p)
  /\ current' = p
  /\ ptbr' = ptbr
  /\ last' = Call("switch_process", 0, 0, pid, 0, FALSE, ZeroPTE, current,
                  procs[current].pagetable,
                  /\ last.op = "switch_process"
                  /\ ~last.forked
                  /\ last.from = p)
  /\ UNCHANGED <<mapcounts, procs, status, hist>>

\* the process was found in the ready queue
SwitchTo(p, pid) ==
  /\ processes' = ListDel(ListAddTail(processes, current), p)
  /\ current' = p
  /\ ptbr' = p
  /\ last' = Call("switch_process", 0, 0, pid, 0, FALSE, ZeroPTE, current,
                  procs[current].pagetable,
                  /\ last.op = "switch_process"
                  /\ ~last.forked
                  /\ last.from = p)
  /\ UNCHANGED <<mapcounts, procs, status, hist>>

\* no such process: fork a child of current
ForkFrom(pid) ==
  LET pt == procs[current].pagetable IN
  IF \E j \in Idx : pt[j].tag = "wild"
    THEN Crash("switch_process", 0, 0, pid)
    ELSE \E ptr \in UninitPtr, junk \in [UnsetPtes(pt) -> GarbagePTEs] :
           /\ mapcounts' = ForkCounts(mapcounts, pt)
           /\ procs' = Append([procs EXCEPT ![current].pagetable = ForkParentPT(pt)],
                              [pid |-> pid, pagetable |-> ForkChildPT(pt, ptr, junk)])
           /\ processes' = ListAddTail(processes, current)
           /\ current' = Len(procs) + 1
           /\ ptbr' = Len(procs) + 1
           /\ last' = Call("switch_process", 0, 0, pid, 0, TRUE, ZeroPTE, current,
                           pt, FALSE)
           /\ hist' = HistFork(current, Len(procs) + 1)
           /\ UNCHANGED status

switch_process(pid) ==
  /\ Called("switch_process", 0, 0, pid)
  /\ status = "running"
  /\ IF Find(pid) # 0 THEN SwitchTo(Find(pid), pid) ELSE ForkFrom(pid)

(* --------------------------------- Next -------------------------------- *)

Next ==
  \/ \E vpn \in VpnIn, rw \in RWs : alloc_page(vpn, rw)
  \/ \E vpn \in VpnIn : free_page(vpn)
  \/ \E vpn \in VpnIn, rw \in RWs : handle_page_fault(vpn, rw)
  \/ \E pid \in Pids : switch_process(pid)

Spec == Init /\ [][Next]_vars

\* free_page called, as its contract asks, on a vpn the current process has a
\* valid entry for
free_mapped(vpn) ==
  /\ Entry(current, vpn).tag = "dir"
  /\ Pte(current, vpn).valid
  /\ free_page(vpn)

\* handle_page_fault called on a vpn the current process has a valid entry for
fault_mapped(vpn, rw) ==
  /\ Entry(current, vpn).tag = "dir"
  /\ Pte(current, vpn).valid
  /\ handle_page_fault(vpn, rw)

\* the operations called on valid mappings only
NextValid ==
  \/ \E vpn \in VpnIn, rw \in RWs : alloc_page(vpn, rw)
  \/ \E vpn \in VpnIn : free_mapped(vpn)
  \/ \E vpn \in VpnIn, rw \in RWs : fault_mapped(vpn, rw)
  \/ \E pid \in Pids : switch_process(pid)

SpecValid == Init /\ [][NextValid]_vars

\* the state the initial process is in once alloc_page(0, RW_WRITE) has
\* returned: frame 0 mapped to vpn 0, the other slots of the new directory as
\* malloc left them; the MaxCalls calls of the run are counted from here
InitWarm ==
  \E d \in MallocDir :
    /\ mapcounts = Inc([f \in Frames |-> 0], 0)
    /\ procs = <<[pid |-> 0,
                  pagetable |->
                    [EmptyPT EXCEPT ![OpIndex(0)] =
                       Dir([d.ptes EXCEPT ![IpIndex(0)] =
                              AllocPTE(RwFlag(RW_WRITE), 0)])]]>>
    /\ current = 1
    /\ processes = <<>>
    /\ ptbr = 1
    /\ status = "running"
    /\ last = Call("alloc_page", 0, RW_WRITE, 0, 0, FALSE, ZeroPTE, 1, EmptyPT,
                   FALSE)
    /\ ncalls = 0
    /\ scn = 0 - 1
    /\ hist = [walloc |-> {<<1, 0>>}, forked |-> {}]

SpecWarm == InitWarm /\ [][Next]_vars

\* the first vpn of inner directory 0 and the first vpn of inner directory 1
VpnDirs == {0, NR_PTES_PER_PAGE}

\* the same four operations, the harness addressing two inner directories
NextDirs ==
  \/ \E vpn \in VpnDirs, rw \in RWs : alloc_page(vpn, rw)
  \/ \E vpn \in VpnDirs : free_page(vpn)
  \/ \E vpn \in VpnDirs, rw \in RWs : handle_page_fault(vpn, rw)
  \/ \E pid \in Pids : switch_process(pid)

SpecDirs == Init /\ [][NextDirs]_vars

(* ======================================================================= *)
(* Properties                                                              *)
(* ======================================================================= *)

\* the entry of process h for vpn v in the process table ps
PteOf(ps, h, v) == ps[h].pagetable[OpIndex(v)].ptes[IpIndex(v)]

DirAt(ps, h, v) == ps[h].pagetable[OpIndex(v)].tag = "dir"

ValidAt(ps, h, v) == DirAt(ps, h, v) /\ PteOf(ps, h, v).valid

\* the valid entries, over all processes, that map frame f
Mappers(ps, f) ==
  {hv \in (1 .. Len(ps)) \X Vpns :
     ValidAt(ps, hv[1], hv[2]) /\ PteOf(ps, hv[1], hv[2]).pfn = f}

\* frame i is the lowest-numbered frame whose count is zero in mc
IsLowestFree(mc, i) ==
  i \in Frames /\ mc[i] = 0 /\ \A k \in Frames : k < i => mc[k] # 0

\* ps and qs differ at most in the entry of process h for vpn v
SameBut(ps, qs, h, v) ==
  /\ Len(ps) = Len(qs)
  /\ \A g \in 1 .. Len(ps) :
       /\ ps[g].pid = qs[g].pid
       /\ \A j \in Idx :
            /\ ps[g].pagetable[j].tag = qs[g].pagetable[j].tag
            /\ \A q \in Idx :
                 (g # h \/ j # OpIndex(v) \/ q # IpIndex(v))
                   => ps[g].pagetable[j].ptes[q] = qs[g].pagetable[j].ptes[q]

\* this step is a call of `op' that returned
Did(op) == last'.op = op /\ status' = "running"

(* C1: in every reachable state, for every frame pfn, mapcounts[pfn] equals  *)
(* the number of valid PTEs, over the current process and every queued     *)
(* process, whose pfn is that frame (so the counts sum to the number of    *)
(* valid PTEs, and a count is 0 exactly when no valid PTE maps the frame). *)
C1_Conservation ==
  status = "running" =>
    \A f \in Frames : mapcounts[f] = Cardinality(Mappers(procs, f))

(* C2: whenever alloc_page succeeds it returns, and maps the vpn to, the   *)
(* lowest-numbered frame whose mapcount was zero at the time of the call,  *)
(* and that frame's mapcount becomes 1.                                    *)
C2_SmallestPfn ==
  [][ (Did("alloc_page") /\ last'.ret # NoFrame) =>
        /\ IsLowestFree(mapcounts, last'.ret)
        /\ ValidAt(procs', current, last'.vpn)
        /\ PteOf(procs', current, last'.vpn).pfn = last'.ret
        /\ mapcounts'[last'.ret] = 1 ]_vars

\* an allocation that took frame 0 again while higher frames were in use
C2_Witness ==
  /\ status = "running"
  /\ last.op = "alloc_page"
  /\ last.ret = 0
  /\ mapcounts[0] = 1
  /\ mapcounts[1] >= 1
  /\ mapcounts[2] = 0
  /\ PteOf(procs, current, last.vpn).pfn = 0

(* C3: a fork (switch_process with a pid that is not queued) gives the     *)
(* child, for every vpn valid in the parent, a valid entry with the same   *)
(* frame and the same private flag; the parent's and the child's entries   *)
(* are non-writable; the frame's mapcount is exactly one higher than       *)
(* before; no other mapcount changes.                                      *)
C3_ForkShares ==
  [][ (Did("switch_process") /\ last'.forked) =>
        /\ \A v \in Vpns :
             ValidAt(procs, current, v) =>
               /\ ValidAt(procs', current', v)
               /\ PteOf(procs', current', v).pfn = PteOf(procs, current, v).pfn
               /\ PteOf(procs', current', v).private = PteOf(procs, current, v).private
               /\ ~PteOf(procs', current', v).writable
               /\ ~PteOf(procs', current, v).writable
               /\ mapcounts'[PteOf(procs, current, v).pfn]
                    = mapcounts[PteOf(procs, current, v).pfn] + 1
        /\ \A f \in Frames :
             (\A v \in Vpns : ValidAt(procs, current, v)
                                => PteOf(procs, current, v).pfn # f)
               => mapcounts'[f] = mapcounts[f] ]_vars

(* C4: a write fault on an entry of the current process that is            *)
(* COW-eligible (private = 1) and whose frame has mapcount > 1, while a    *)
(* free frame exists, returns true; the entry is rebound to the lowest     *)
(* frame with mapcount zero and becomes writable; the old frame's count    *)
(* drops by exactly one, the new frame's count is 1, and every entry of    *)
(* every other process is unchanged.                                       *)
C4_CowShared ==
  [][ ( /\ Did("handle_page_fault")
        /\ last'.rw = RW_WRITE
        /\ PteOf(procs, current, last'.vpn).private = 1
        /\ mapcounts[PteOf(procs, current, last'.vpn).pfn] \notin {0, 1}
        /\ \E f \in Frames : mapcounts[f] = 0 ) =>
        LET old == PteOf(procs, current, last'.vpn)
            new == PteOf(procs', current, last'.vpn)
        IN /\ last'.ret = 1
           /\ IsLowestFree(mapcounts, new.pfn)
           /\ new.writable
           /\ new.valid = old.valid /\ new.private = old.private
           /\ mapcounts'[old.pfn] = mapcounts[old.pfn] - 1
           /\ mapcounts'[new.pfn] = 1
           /\ \A f \in Frames \ {old.pfn, new.pfn} : mapcounts'[f] = mapcounts[f]
           /\ SameBut(procs, procs', current, last'.vpn) ]_vars

\* a write fault moved the writer to a fresh frame; another process still
\* maps the old frame, which is left with one mapping
C4_Witness ==
  /\ status = "running"
  /\ last.op = "handle_page_fault"
  /\ last.rw = RW_WRITE
  /\ last.ret = 1
  /\ last.opte.valid /\ last.opte.private = 1 /\ ~last.opte.writable
  /\ PteOf(procs, current, last.vpn).pfn # last.opte.pfn
  /\ PteOf(procs, current, last.vpn).writable
  /\ mapcounts[PteOf(procs, current, last.vpn).pfn] = 1
  /\ mapcounts[last.opte.pfn] = 1
  /\ \E h \in 1 .. Len(procs) :
       /\ h # current
       /\ ValidAt(procs, h, last.vpn)
       /\ PteOf(procs, h, last.vpn).pfn = last.opte.pfn

(* C5: a write fault on an entry of the current process that is            *)
(* COW-eligible (private = 1) and whose frame has mapcount exactly 1       *)
(* returns true and sets only that entry's writable bit: its frame number, *)
(* every mapcount and every other entry are unchanged.                     *)
C5_CowExclusive ==
  [][ ( /\ Did("handle_page_fault")
        /\ last'.rw = RW_WRITE
        /\ PteOf(procs, current, last'.vpn).private = 1
        /\ mapcounts[PteOf(procs, current, last'.vpn).pfn] = 1 ) =>
        /\ last'.ret = 1
        /\ PteOf(procs', current, last'.vpn)
             = [PteOf(procs, current, last'.vpn) EXCEPT !.writable = TRUE]
        /\ mapcounts' = mapcounts
        /\ SameBut(procs, procs', current, last'.vpn) ]_vars

\* a write fault on a non-writable entry, sole mapping of its frame after the
\* other sharer moved away, was resolved in place
C5_Witness ==
  /\ status = "running"
  /\ last.op = "handle_page_fault"
  /\ last.rw = RW_WRITE
  /\ last.ret = 1
  /\ last.opte.valid /\ last.opte.private = 1 /\ ~last.opte.writable
  /\ PteOf(procs, current, last.vpn) = [last.opte EXCEPT !.writable = TRUE]
  /\ mapcounts[last.opte.pfn] = 1
  /\ Len(procs) >= 2

(* C6: with 4 frames, from one process with an empty page table:           *)
(* alloc_page(0, read-only), alloc_page(1, read-only), switch_process(2)   *)
(* forking a child leave frames 0 and 1 with mapcount 2 and both           *)
(* processes' entries for vpn 0 and 1 non-writable; handle_page_fault(0,   *)
(* write) in the child then succeeds and rebinds the child's vpn 0 to a    *)
(* fresh frame, leaving count(old frame) = 1 and count(new frame) = 1.     *)
C6_Scenario ==
  /\ (scn = 3 /\ status = "running") =>
       /\ mapcounts[0] = 2 /\ mapcounts[1] = 2
       /\ \A h \in {1, 2}, v \in {0, 1} :
            ValidAt(procs, h, v) /\ ~PteOf(procs, h, v).writable
  /\ (scn = 4 /\ status = "running") =>
       /\ last.ret = 1
       /\ PteOf(procs, 2, 0).pfn # PteOf(procs, 1, 0).pfn
       /\ mapcounts[PteOf(procs, 1, 0).pfn] = 1
       /\ mapcounts[PteOf(procs, 2, 0).pfn] = 1

(* C6, amended: after alloc_page(0, read-only), alloc_page(1, read-only)   *)
(* and the fork switch_process(2), vpn 0 and 1 map frames 0 and 1 in both  *)
(* processes, non-writable and not COW-eligible, and the mapcount of each  *)
(* of the two frames is 1 plus the number of the parent's valid entries on *)
(* it (2, unless a stale entry of the uninitialised directory aliases the  *)
(* frame); handle_page_fault(0, write) in the child then returns false and *)
(* leaves the child's entry and every mapcount as they were.               *)
ParentOn(f) == {v \in Vpns : ValidAt(procs, 1, v) /\ PteOf(procs, 1, v).pfn = f}

C6_ScenarioReadOnly ==
  (scn \in {3, 4} /\ status = "running") =>
    /\ \A h \in {1, 2}, v \in {0, 1} :
         DirAt(procs, h, v) /\ PteOf(procs, h, v) = PTE(TRUE, FALSE, 0, v)
    /\ \A f \in {0, 1} : mapcounts[f] = 1 + Cardinality(ParentOn(f))
    /\ \A f \in {0, 1} : ParentOn(f) = {f} => mapcounts[f] = 2
    /\ \A f \in Frames \ {0, 1} : mapcounts[f] = 0
    /\ scn = 4 => last.op = "handle_page_fault" /\ last.ret = 0

\* the scripted run has ended: the child's write fault was refused and both
\* frames are still shared by the two processes
C6_Witness ==
  /\ scn = 4
  /\ status = "running"
  /\ current = 2
  /\ last.op = "handle_page_fault" /\ last.rw = RW_WRITE /\ last.ret = 0
  /\ mapcounts[0] = 2 /\ mapcounts[1] = 2
  /\ PteOf(procs, 2, 0) = PTE(TRUE, FALSE, 0, 0)

(* C7 (as the specification states it): on a successful alloc_page the new *)
(* entry is valid, writable exactly when the intent includes write, and    *)
(* private exactly when the intent is NOT write.                           *)
IncludesWrite(rw) == (rw \div RW_WRITE) % 2 = 1

C7_PrivateWhenReadOnly ==
  [][ (Did("alloc_page") /\ last'.ret # NoFrame) =>
        LET new == PteOf(procs', current, last'.vpn) IN
        /\ new.valid
        /\ new.writable = IncludesWrite(last'.rw)
        /\ (new.private = 1) = ~IncludesWrite(last'.rw) ]_vars

(* C7, amended: on a successful alloc_page the new entry is valid, and it  *)
(* is writable and private (private = 1) exactly when the intent includes  *)
(* write; a read-only allocation (rw = RW_READ = 1) has private = 0.       *)
C7_PrivateWhenWrite ==
  [][ (Did("alloc_page") /\ last'.ret # NoFrame) =>
        LET new == PteOf(procs', current, last'.vpn) IN
        /\ new.valid
        /\ new.writable = IncludesWrite(last'.rw)
        /\ (new.private = 1) = IncludesWrite(last'.rw)
        /\ new.private \in {0, 1} ]_vars

\* a read-only allocation that succeeded and left private = 0
C7_Witness ==
  /\ status = "running"
  /\ last.op = "alloc_page"
  /\ last.rw = RW_READ
  /\ last.ret # NoFrame
  /\ PteOf(procs, current, last.vpn) = PTE(TRUE, FALSE, 0, last.ret)

(* C8: a page mapped by alloc_page with read-only intent never becomes     *)
(* writable through handle_page_fault and switch_process calls, in any     *)
(* process holding a copy of the entry, and a write fault on it returns    *)
(* false.  A read-only allocation leaves the entry valid, non-writable and *)
(* with private = 0; every handle_page_fault and switch_process step keeps *)
(* such an entry as it is in the process that holds it, a fork hands the   *)
(* child the same entry, and a fault on such an entry returns false.       *)
ReadOnlyPte(pte) == pte.valid /\ ~pte.writable /\ pte.private = 0

C8_ReadOnlyStays ==
  [][ /\ (Did("alloc_page") /\ last'.ret # NoFrame /\ last'.rw = RW_READ) =>
           ReadOnlyPte(PteOf(procs', current, last'.vpn))
      /\ (Did("handle_page_fault") \/ Did("switch_process")) =>
           \A h \in 1 .. Len(procs), v \in Vpns :
             (DirAt(procs, h, v) /\ ReadOnlyPte(PteOf(procs, h, v))) =>
               /\ PteOf(procs', h, v) = PteOf(procs, h, v)
               /\ (last'.forked /\ h = current) =>
                    PteOf(procs', current', v) = PteOf(procs, h, v)
      /\ ( /\ Did("handle_page_fault")
           /\ ReadOnlyPte(PteOf(procs, current, last'.vpn)) ) =>
           last'.ret = 0 ]_vars

\* a forked child's write fault on its copy of a read-only page was refused
C8_Witness ==
  /\ status = "running"
  /\ last.op = "handle_page_fault"
  /\ last.rw = RW_WRITE
  /\ last.ret = 0
  /\ current # 1
  /\ ReadOnlyPte(PteOf(procs, current, last.vpn))
  /\ ValidAt(procs, 1, last.vpn)
  /\ PteOf(procs, 1, last.vpn) = PteOf(procs, current, last.vpn)
  /\ mapcounts[PteOf(procs, current, last.vpn).pfn] = 2

(* C9: free_page(vpn) on a valid mapping of the current process resets the *)
(* entry's valid, writable, private and pfn fields, decrements by exactly  *)
(* one the mapcount of the frame the entry held, and changes no other      *)
(* mapcount and no other entry; if the mapping was the sole one of its     *)
(* frame the count becomes 0 (the frame can be allocated again); if the    *)
(* frame was shared the other mappings stay valid, with one fewer counted. *)
C9_FreePage ==
  [][ (Did("free_page") /\ ValidAt(procs, current, last'.vpn)) =>
        LET old == PteOf(procs, current, last'.vpn) IN
        /\ PteOf(procs', current, last'.vpn) = ZeroPTE
        /\ mapcounts' = [mapcounts EXCEPT ![old.pfn] = @ - 1]
        /\ SameBut(procs, procs', current, last'.vpn)
        /\ (Mappers(procs, old.pfn) = {<<current, last'.vpn>>}) =>
             mapcounts'[old.pfn] = 0
        /\ (Mappers(procs, old.pfn) # {<<current, last'.vpn>>}) =>
             /\ Mappers(procs', old.pfn)
                  = Mappers(procs, old.pfn) \ {<<current, last'.vpn>>}
             /\ mapcounts'[old.pfn] = Cardinality(Mappers(procs', old.pfn)) ]_vars

(* C10: a plain switch (switch_process with a queued pid) changes no       *)
(* mapcount and no entry of any process; so a switch from A to an existing *)
(* B and back to A leaves A's page table as it was before the first one.   *)
C10_PlainSwitch ==
  [][ (Did("switch_process") /\ ~last'.forked) =>
        /\ mapcounts' = mapcounts
        /\ procs' = procs
        /\ last'.back => procs'[current'].pagetable = last.snap ]_vars

\* a plain switch came back to a process that holds mappings, after a plain
\* switch away from it
C10_Witness ==
  /\ status = "running"
  /\ last.op = "switch_process"
  /\ ~last.forked
  /\ last.back
  /\ \E v \in Vpns : ValidAt(procs, current, v)
  /\ \E v \in Vpns : ValidAt(procs, last.from, v)

(* C11: when every frame has a nonzero mapcount, alloc_page returns the    *)
(* `no frames' value -1 and mutates nothing: the mapcounts, every PTE      *)
(* field and the set of allocated inner directories of the current page    *)
(* table are as they were before the call.                                 *)
C11_Exhausted ==
  [][ ( /\ Did("alloc_page")
        /\ \A f \in Frames : mapcounts[f] # 0 ) =>
        /\ last'.ret = NoFrame
        /\ mapcounts' = mapcounts
        /\ procs' = procs ]_vars

(* C12: when every frame has a nonzero mapcount, a write fault on a        *)
(* COW-eligible entry (private = 1) whose frame has mapcount > 1 returns   *)
(* false and leaves the entry (writable bit and frame number) and every    *)
(* mapcount unchanged.                                                     *)
C12_SharedExhausted ==
  [][ ( /\ Did("handle_page_fault")
        /\ last'.rw = RW_WRITE
        /\ \A f \in Frames : mapcounts[f] # 0
        /\ PteOf(procs, current, last'.vpn).private = 1
        /\ mapcounts[PteOf(procs, current, last'.vpn).pfn] \notin {0, 1} ) =>
        /\ last'.ret = 0
        /\ PteOf(procs', current, last'.vpn) = PteOf(procs, current, last'.vpn)
        /\ mapcounts' = mapcounts
        /\ procs' = procs ]_vars

\* a write fault on a write-protected COW page that another process also
\* maps was refused because no frame is free
C12_Witness ==
  /\ status = "running"
  /\ last.op = "handle_page_fault"
  /\ last.rw = RW_WRITE
  /\ last.ret = 0
  /\ last.opte.valid /\ last.opte.private = 1 /\ ~last.opte.writable
  /\ PteOf(procs, current, last.vpn) = last.opte
  /\ \A f \in Frames : mapcounts[f] # 0
  /\ mapcounts[last.opte.pfn] = 2
  /\ \E h \in 1 .. Len(procs) :
       /\ h # current
       /\ ValidAt(procs, h, last.vpn)
       /\ PteOf(procs, h, last.vpn).pfn = last.opte.pfn

\* how many times process h is linked in the queue q
Times(q, h) == Cardinality({k \in 1 .. Len(q) : q[k] = h})

(* C13: in every reachable state exactly one process is current and it is  *)
(* not a member of the process set; after switch_process(pid), by plain    *)
(* switch or by fork, the target (the queued process with that pid, or     *)
(* the new child) is current and not queued, and the process that was      *)
(* current before is queued exactly once.                                  *)
C13_CurrentNotQueued ==
  /\ [](/\ current \in 1 .. Len(procs)
        /\ Times(processes, current) = 0
        /\ \A h \in 1 .. Len(procs) : h # current => Times(processes, h) = 1)
  /\ [][ Did("switch_process") =>
           /\ current' # current
           /\ procs'[current'].pid = last'.pid
           /\ IF \E k \in 1 .. Len(processes) : procs[processes[k]].pid = last'.pid
                THEN Times(processes, current') = 1 /\ ~last'.forked
                ELSE current' = Len(procs) + 1 /\ last'.forked
           /\ Times(processes', current') = 0
           /\ Times(processes', current) = 1 ]_vars

\* a plain switch has taken a process off a queue of two and queued the
\* process that was running
C13_Witness ==
  /\ status = "running"
  /\ last.op = "switch_process"
  /\ ~last.forked
  /\ Len(processes) = 2
  /\ Times(processes, last.from) = 1
  /\ Times(processes, current) = 0

(* C14: after every switch_process call (plain switch or fork) ptbr refers *)
(* to the page table of the process that is now current; no other          *)
(* operation changes ptbr or current.                                      *)
C14_PtbrFollowsCurrent ==
  /\ [](ptbr = current)
  /\ [][ Did("switch_process") => ptbr' = current' /\ ptbr' # ptbr ]_vars
  /\ [][ last'.op # "switch_process" => ptbr' = ptbr /\ current' = current ]_vars

\* a plain switch has come back to the process the previous one had left, and
\* ptbr has followed it
C14_Witness ==
  /\ status = "running"
  /\ last.op = "switch_process"
  /\ last.back
  /\ ptbr = current
  /\ ptbr # last.from

(* C15: handle_page_fault called for a vpn whose outer directory entry is  *)
(* absent, or whose entry is invalid, returns false (a result value, not a *)
(* crash) and mutates no state.                                            *)
C15_FaultNotHandled ==
  [][ ( /\ last'.op = "handle_page_fault"
        /\ ~ValidAt(procs, current, last'.vpn) ) =>
        /\ status' = "running"
        /\ last'.ret = 0
        /\ mapcounts' = mapcounts
        /\ procs' = procs ]_vars

(* C16: free_page called on a vpn of the current process whose entry is    *)
(* already invalid, its inner directory being allocated, leaves every      *)
(* frame's mapcount (frame 0's in particular) as it was, and no count      *)
(* wraps below zero.                                                       *)
C16_FreeInvalid ==
  [][ ( /\ Did("free_page")
        /\ DirAt(procs, current, last'.vpn)
        /\ ~PteOf(procs, current, last'.vpn).valid ) =>
        /\ mapcounts' = mapcounts
        /\ \A f \in Frames : mapcounts'[f] >= 0 ]_vars

(* C17: after a fork the child's page table has an inner directory exactly *)
(* at the outer indices where the parent has one: an outer entry that is   *)
(* absent (null) in the parent is absent in the child, and within a copied *)
(* directory a vpn that is invalid in the parent is invalid in the child.  *)
C17_ForkDirectories ==
  [][ ( /\ last'.op = "switch_process"
        /\ last'.forked ) =>
        \A v \in Vpns :
          /\ DirAt(procs', current', v) <=> DirAt(procs, current, v)
          /\ procs[current].pagetable[OpIndex(v)].tag = "null"
               => procs'[current'].pagetable[OpIndex(v)].tag = "null"
          /\ (DirAt(procs, current, v) /\ ~PteOf(procs, current, v).valid)
               => ~PteOf(procs', current', v).valid ]_vars

(* C18: in every reachable state the pids of the current process and of    *)
(* the members of the process set are pairwise different, whatever the     *)
(* sequence of switch_process calls, switch_process with the pid of the    *)
(* running process included.                                               *)
C18_UniquePids ==
  \A g, h \in {current} \cup {processes[k] : k \in 1 .. Len(processes)} :
    g # h => procs[g].pid # procs[h].pid

(* C19: after a fork of a page that the parent allocated with write        *)
(* intent, a write fault on it by the parent or by the child, a free frame *)
(* existing, succeeds; once both have write-faulted that vpn, in either    *)
(* order and with plain switches in between, both entries are writable and *)
(* map two distinct frames, each with mapcount 1.                          *)
C19_BothWrite ==
  [][ ( /\ Did("handle_page_fault")
        /\ last'.rw = RW_WRITE
        /\ <<current, last'.vpn>> \in hist.forked
        /\ \E f \in Frames : mapcounts[f] = 0 ) =>
        LET new == PteOf(procs', current, last'.vpn) IN
        /\ last'.ret = 1
        /\ new.valid /\ new.writable
        /\ \A h \in (1 .. Len(procs)) \ {current} :
             ( /\ <<h, last'.vpn>> \in hist.forked
               /\ PteOf(procs, h, last'.vpn).writable ) =>
               /\ PteOf(procs', h, last'.vpn).writable
               /\ PteOf(procs', h, last'.vpn).pfn # new.pfn
               /\ mapcounts'[new.pfn] = 1
               /\ mapcounts'[PteOf(procs', h, last'.vpn).pfn] = 1 ]_vars

(* C20: copy-on-write isolation.  In every state reached by operations     *)
(* called on valid mappings, an entry of any process that is valid and     *)
(* writable maps a frame whose mapcount is exactly 1, and no other valid   *)
(* entry maps that frame.                                                  *)
C20_CowIsolation ==
  status = "running" =>
    \A h \in 1 .. Len(procs) : \A v \in Vpns :
      (ValidAt(procs, h, v) /\ PteOf(procs, h, v).writable) =>
        /\ mapcounts[PteOf(procs, h, v).pfn] = 1
        /\ Mappers(procs, PteOf(procs, h, v).pfn) = {<<h, v>>}

====
